---- MODULE Spec2Model ----
(***************************************************************************)
(* Model of the neopixel daemon relay: the frame codec and pipe transport  *)
(* of app/messaging.py, the command dispatch of neopixel_daemon/commands   *)
(* with the calls the commands make on the neopixel driver, and the        *)
(* start-up (module body, privilege check, --kill, --start, PID file), the *)
(* read-dispatch loop and the signal handlers of neopixel_daemon/main.py.  *)
(*                                                                         *)
(* Specifications: Spec (the relay once a daemon is inside main()),        *)
(* SpecStart and SpecStartFair (invocations of main.py and the daemons     *)
(* they leave behind), SpecCodec (create_msg and get_message), SpecCommand *)
(* (build_command and execute, one driver call at a time).                 *)
(*                                                                         *)
(* Conventions.                                                            *)
(*  - A Python str is a sequence of character codes (ASCII), a Python      *)
(*    bytes object whose length is small is a sequence of 0..255.          *)
(*  - A Python int that may exceed 2^31 is a pair <<hi, lo>> standing for  *)
(*    hi * 65536 + lo with 0 <= lo < 65536 ("Big").                        *)
(*  - A bytes object that may be longer than 2^32 is a record              *)
(*    [body, extra]: the bytes of body followed by extra (a Big) further   *)
(*    bytes of value 0.                                                    *)
(*  - The outcome of a Python call is Ok(v) or Raise(exception name).      *)
(***************************************************************************)
EXTENDS Integers, Sequences, FiniteSets, TLC

VARIABLES
    fsIn,       \* what is at STDIN_NAMED_PIPE_PATH: "absent" | "fifo" | "file"
    fsOut,      \* what is at STDOUT_NAMED_PIPE_PATH
    fileIn,     \* bytes of the regular file at STDIN_NAMED_PIPE_PATH, if any
    pipeBuf,    \* bytes in the kernel buffer of the inbound FIFO
    writers,    \* write ends of the inbound FIFO that are open
    wSeen,      \* a writer has opened since the daemon entered open()
    dPc,        \* daemon: "main" | "wait" | "read" | "got" | "built" | "dead" | "exited"
    rbuf,       \* daemon: bytes its reader has taken from the pipe
    rEof,       \* daemon: its reader has hit end of file
    dCommand,   \* daemon: the dict read_command returned
    dCmd,       \* daemon: the Command build_command returned
    dFault,     \* daemon: the exception that left main(), [stage, exc]
    exitStatus, \* daemon: process exit status, -1 while it lives
    pidFile,    \* DAEMON_PID_FILE_PATH: 0 if absent, else the pid written in it
    running,    \* the invocations (pids) that are inside main()
    lastSig,    \* daemon: the signal whose handler ran last, "none" if none
    hw,         \* the strip: [pixels, brightness]
    received,   \* history: [declared, payload] of each get_message return
    executed,   \* history: commands whose execute() returned, in order
    written,    \* history: the bytes of each writer that wrote and closed
                \*   without an error, in order
    pPc,        \* producer: "idle" | "opening" | "opened" | "written"
    pData,      \* producer: the bytes it writes in this open cycle
    pSent,      \* producer: open cycles begun
    pLast,      \* producer: what its last write_command found and did
    logDir,     \* the logs directory of the launch directory: "absent" | "dir"
    logFiles,   \* debug log files created so far
    workDir,    \* DAEMON_WORKING_DIRECTORY: "absent" | "dir"
    sigPending, \* pids a SIGTERM of kill was sent to and not yet handled
    dOwner,     \* the invocation (pid) that runs main(), 0 if none ever did
    iPc,        \* invocation of main.py: "idle" | "imported" | "checked"
                \*   | "kill_resolved" | "configured" | "detached" | "loop"
                \*   | "failed" | "done"
    iArgs,      \* invocation: [start, kill], the two flags
    iUid,       \* invocation: os.getuid()
    iExc,       \* invocation: the exception that ended it before main(), or "none"
    cPc,        \* codec exercise: "input" | "framed" | "read"
    cIn,        \* codec exercise: the content handed to create_msg
    cFrame,     \* codec exercise: outcome of create_msg(cIn)
    cCut,       \* codec exercise: bytes of the frame the writer delivered
    cOut,       \* codec exercise: outcome of get_message on the stream
    xPc,        \* command exercise: "input" | "built" | "running" | "returned"
                \*   | "build_failed" | "execute_failed"
    xEnv,       \* command exercise: the command dict handed to build_command
    xCmd,       \* command exercise: the Command build_command returned
    xPlan,      \* command exercise: driver calls execute() has yet to make
    xDrv,       \* command exercise: the driver, see Driver
    xOps,       \* command exercise: driver calls made so far, in order
    xOut,       \* command exercise: the exception raised, if any
    xHw0,       \* command exercise: the strip before the command
    gPc,        \* registry exercise: "importing" | "loop" | "built"
    gSubclasses,\* registry exercise: Command.__subclasses__() so far
    gEnv,       \* registry exercise: the command dict handed to build_command
    gOut        \* registry exercise: outcome of build_command

fsVars == <<fsIn, fsOut, fileIn>>

pipeVars == <<pipeBuf, writers, wSeen>>

daemonVars == <<dPc, rbuf, rEof, dCommand, dCmd, dFault, exitStatus, pidFile, running, lastSig>>

histVars == <<received, executed, written>>

producerVars == <<pPc, pData, pSent, pLast>>

codecVars == <<cPc, cIn, cFrame, cCut, cOut>>

startVars == <<logDir, logFiles, workDir, sigPending, dOwner, iPc, iArgs, iUid, iExc>>

relayVars == <<fsVars, pipeVars, daemonVars, hw, histVars, producerVars, startVars>>

commandVars == <<xPc, xEnv, xCmd, xPlan, xDrv, xOps, xOut, xHw0>>

registryVars == <<gPc, gSubclasses, gEnv, gOut>>

exerciseVars == <<codecVars, commandVars, registryVars>>

vars == <<relayVars, exerciseVars>>

\* ------------------------------------------------------------------------
\* Bounds of the model
\* ------------------------------------------------------------------------

\* longest explicitly enumerated bytes body of a codec input
MaxLen == 3

\* open cycles the producer begins
MaxMsgs == 2

\* messages the daemon reads
MaxReads == 2

\* subclasses of Command defined before the loop: the three shipped ones and
\* up to two of further modules
MaxVariants == 5

\* ------------------------------------------------------------------------
\* Outcomes of Python calls
\* ------------------------------------------------------------------------

Ok(v) == [tag |-> "ok", val |-> v]

Raise(e) == [tag |-> "raise", exc |-> e]

IsOk(r) == r.tag = "ok"

Null == [tag |-> "none"]

\* ------------------------------------------------------------------------
\* Python ints beyond 2^31: <<hi, lo>> = hi * 65536 + lo
\* ------------------------------------------------------------------------

Wide == 256 * 256

BigOfNat(n) == <<n \div Wide, n % Wide>>

BigAddNat(a, n) == <<a[1] + ((a[2] + n) \div Wide), (a[2] + n) % Wide>>

BigLeq(a, b) == a[1] < b[1] \/ (a[1] = b[1] /\ a[2] <= b[2])

BigGt(a, b) == ~BigLeq(a, b)

BigMin(a, b) == IF BigLeq(a, b) THEN a ELSE b

\* a - b for a >= b
BigSub(a, b) ==
    IF a[2] >= b[2] THEN <<a[1] - b[1], a[2] - b[2]>>
    ELSE <<a[1] - b[1] - 1, a[2] + Wide - b[2]>>

BigZero == <<0, 0>>

\* ------------------------------------------------------------------------
\* bytes objects: [body, extra]
\* ------------------------------------------------------------------------

Bytes(s) == [body |-> s, extra |-> BigZero]

\* len(b)
PyLen(b) == BigAddNat(b.extra, Len(b.body))

\* a + b for a short a
PyConcat(s, b) == [body |-> s \o b.body, extra |-> b.extra]

\* the explicit bytes of a bytes object known to be short
Materialize(b) ==
    b.body \o [i \in 1..b.extra[2] |-> 0]

\* ------------------------------------------------------------------------
\* settings.py
\* ------------------------------------------------------------------------

\* 4294967295 = 65535 * 65536 + 65535
MAX_MESSAGE_SIZE == <<Wide - 1, Wide - 1>>

\* ------------------------------------------------------------------------
\* messaging.py: frame codec
\* ------------------------------------------------------------------------

\* struct.pack("<I", size), most significant byte first (a byte-order slip)
encode_msg_size_big_endian(size) ==
    IF size[1] >= Wide THEN Raise("struct.error")
    ELSE Ok(<<size[1] \div 256, size[1] % 256, size[2] \div 256, size[2] % 256>>)

\* struct.pack("<I", size): 4 bytes, least significant first; struct.error
\* when size does not fit an unsigned 32-bit field
encode_msg_size(size) ==
    IF size[1] >= Wide THEN Raise("struct.error")
    ELSE Ok(<<size[2] % 256, size[2] \div 256, size[1] % 256, size[1] \div 256>>)

\* struct.unpack("<I", size_bytes)[0]: struct.error unless exactly 4 bytes
decode_msg_size(size_bytes) ==
    IF Len(size_bytes) # 4 THEN Raise("struct.error")
    ELSE Ok(<<size_bytes[4] * 256 + size_bytes[3],
              size_bytes[2] * 256 + size_bytes[1]>>)

\* create_msg without the size guard, on a packer that keeps the low 32 bits
create_msg_wrapping(content) ==
    LET size == PyLen(content)
        low  == <<size[1] % Wide, size[2]>>
    IN  Ok(PyConcat(encode_msg_size(low).val, content))

create_msg(content) ==
    LET size == PyLen(content)
        head == encode_msg_size(size)
    IN  IF BigGt(size, MAX_MESSAGE_SIZE) THEN Raise("ValueError")
        ELSE IF ~IsOk(head) THEN head
        ELSE Ok(PyConcat(head.val, content))

\* fifo_h.read(n) on a stream that ends after its last byte (every writer
\* has closed): <<the bytes returned, the stream left>>
StreamRead(stream, n) ==
    IF BigLeq(n, BigOfNat(Len(stream.body)))
    THEN <<Bytes(SubSeq(stream.body, 1, n[2])),
           [body |-> SubSeq(stream.body, n[2] + 1, Len(stream.body)),
            extra |-> stream.extra]>>
    ELSE LET want == BigSub(n, BigOfNat(Len(stream.body)))
             got  == BigMin(want, stream.extra)
         IN  <<[body |-> stream.body, extra |-> got],
               [body |-> <<>>, extra |-> BigSub(stream.extra, got)]>>

\* get_message that asks for one byte less than the declared size
get_message_short(stream) ==
    LET first    == StreamRead(stream, BigOfNat(4))
        msg_size == decode_msg_size(Materialize(first[1]))
    IN  IF ~IsOk(msg_size) THEN msg_size
        ELSE IF msg_size.val = BigZero THEN Ok(Bytes(<<>>))
        ELSE Ok(StreamRead(first[2], BigSub(msg_size.val, BigOfNat(1)))[1])

\* get_message on the bytes the open pipe yields until end of file
get_message(stream) ==
    LET first    == StreamRead(stream, BigOfNat(4))
        msg_size == decode_msg_size(Materialize(first[1]))
    IN  IF ~IsOk(msg_size) THEN msg_size
        ELSE Ok(StreamRead(first[2], msg_size.val)[1])

\* ------------------------------------------------------------------------
\* Python str literals, as character codes
\* ------------------------------------------------------------------------

\* "command"
Str_command == <<99, 111, 109, 109, 97, 110, 100>>

\* "args"
Str_args == <<97, 114, 103, 115>>

\* "kwargs"
Str_kwargs == <<107, 119, 97, 114, 103, 115>>

\* "echo"
Str_echo == <<101, 99, 104, 111>>

\* "off"
Str_off == <<111, 102, 102>>

\* "set"
Str_set == <<115, 101, 116>>

\* "bogus"
Str_bogus == <<98, 111, 103, 117, 115>>

\* "brightness"
Str_brightness == <<98, 114, 105, 103, 104, 116, 110, 101, 115, 115>>

\* "color"
Str_color == <<99, 111, 108, 111, 114>>

\* "0.6"
Str_0_6 == <<48, 46, 54>>

\* "abc"
Str_abc == <<97, 98, 99>>

\* "255-0-0"
Str_255_0_0 == <<50, 53, 53, 45, 48, 45, 48>>

\* "0xE09D37"
Str_0xE09D37 == <<48, 120, 69, 48, 57, 68, 51, 55>>

\* "red"
Str_red == <<114, 101, 100>>

\* "a"
Str_a == <<97>>

\* "0x"
Str_0x == <<48, 120>>

\* "0xFFFFFF"
Str_0xFFFFFF == <<48, 120, 70, 70, 70, 70, 70, 70>>

\* "0x000000"
Str_0x000000 == <<48, 120, 48, 48, 48, 48, 48, 48>>

\* "0x123456"
Str_0x123456 == <<48, 120, 49, 50, 51, 52, 53, 54>>

\* "0-0-255"
Str_0_0_255 == <<48, 45, 48, 45, 50, 53, 53>>

\* "1"
Str_1 == <<49>>

\* "Off"
Str_Off == <<79, 102, 102>>

\* settings.py: the three keys of a command

COMMAND_NAME == Str_command

COMMAND_POSITIONAL_ARGUMENTS == Str_args

COMMAND_KEYWORD_ARGUMENTS == Str_kwargs

\* ------------------------------------------------------------------------
\* Python values that json handles: str, list, dict (an insertion-ordered
\* sequence of <<key, value>> pairs)
\* ------------------------------------------------------------------------

JStr(s) == [t |-> "str", v |-> s]

JList(l) == [t |-> "list", v |-> l]

JDict(d) == [t |-> "dict", v |-> d]

RECURSIVE JoinWith(_, _)
\* sep.join(parts)
JoinWith(sep, parts) ==
    IF parts = <<>> THEN <<>>
    ELSE IF Len(parts) = 1 THEN parts[1]
    ELSE parts[1] \o sep \o JoinWith(sep, Tail(parts))

RECURSIVE json_dumps(_)
\* json.dumps(v) with the default separators ", " and ": "; the strings of
\* the model hold no character that json escapes
json_dumps(v) ==
    CASE v.t = "str"  -> <<34>> \o v.v \o <<34>>
      [] v.t = "list" ->
            <<91>> \o JoinWith(<<44, 32>>,
                               [i \in 1..Len(v.v) |-> json_dumps(v.v[i])]) \o <<93>>
      [] v.t = "dict" ->
            <<123>> \o JoinWith(<<44, 32>>,
                                [i \in 1..Len(v.v) |->
                                    <<34>> \o v.v[i][1] \o <<34, 58, 32>>
                                           \o json_dumps(v.v[i][2])]) \o <<125>>

\* the command dict write_command builds
Envelope(command, args, kwargs) ==
    JDict(<< <<COMMAND_NAME, JStr(command)>>,
             <<COMMAND_POSITIONAL_ARGUMENTS, args>>,
             <<COMMAND_KEYWORD_ARGUMENTS, kwargs>> >>)

Kw(pairs) == JDict([i \in 1..Len(pairs) |-> <<pairs[i][1], JStr(pairs[i][2])>>])

\* the commands the producers of the model send
EnvEcho == Envelope(Str_echo, JList(<<JStr(Str_a)>>), Kw(<<>>))

EnvOff == Envelope(Str_off, JList(<<>>), Kw(<<>>))

EnvSetDec ==
    Envelope(Str_set, JList(<<>>),
             Kw(<< <<Str_brightness, Str_0_6>>, <<Str_color, Str_255_0_0>> >>))

EnvSetHex ==
    Envelope(Str_set, JList(<<>>),
             Kw(<< <<Str_brightness, Str_0_6>>, <<Str_color, Str_0xE09D37>> >>))

EnvSetNoBrightness ==
    Envelope(Str_set, JList(<<>>), Kw(<< <<Str_color, Str_255_0_0>> >>))

EnvSetBadColor ==
    Envelope(Str_set, JList(<<>>),
             Kw(<< <<Str_brightness, Str_0_6>>, <<Str_color, Str_red>> >>))

EnvSetBadBrightness ==
    Envelope(Str_set, JList(<<>>),
             Kw(<< <<Str_brightness, Str_abc>>, <<Str_color, Str_255_0_0>> >>))

EnvBogus == Envelope(Str_bogus, JList(<<>>), Kw(<<>>))

\* further command dicts, handed to build_command directly

EnvOffArgs ==
    Envelope(Str_off, JList(<<JStr(Str_a), JStr(Str_red)>>),
             Kw(<< <<Str_brightness, Str_0_6>>, <<Str_color, Str_255_0_0>> >>))

EnvOffKwargs ==
    Envelope(Str_off, JList(<<>>), Kw(<< <<Str_color, Str_0xFFFFFF>> >>))

EnvSetBlue ==
    Envelope(Str_set, JList(<<>>),
             Kw(<< <<Str_brightness, Str_1>>, <<Str_color, Str_0_0_255>> >>))

EnvSetArgs ==
    Envelope(Str_set, JList(<<JStr(Str_a)>>),
             Kw(<< <<Str_color, Str_255_0_0>>, <<Str_brightness, Str_1>> >>))

EnvSetNoColor ==
    Envelope(Str_set, JList(<<>>), Kw(<< <<Str_brightness, Str_0_6>> >>))

EnvSetNoKwargs == Envelope(Str_set, JList(<<>>), Kw(<<>>))

EnvSetNoColorBadBrightness ==
    Envelope(Str_set, JList(<<>>), Kw(<< <<Str_brightness, Str_abc>> >>))

EnvSetHexFF ==
    Envelope(Str_set, JList(<<>>),
             Kw(<< <<Str_brightness, Str_1>>, <<Str_color, Str_0xFFFFFF>> >>))

EnvSetHex00 ==
    Envelope(Str_set, JList(<<>>),
             Kw(<< <<Str_brightness, Str_0_6>>, <<Str_color, Str_0x000000>> >>))

EnvSetHexDigits ==
    Envelope(Str_set, JList(<<>>),
             Kw(<< <<Str_brightness, Str_0_6>>, <<Str_color, Str_0x123456>> >>))

EnvNoName == Envelope(<<>>, JList(<<>>), Kw(<<>>))

EnvOffCapital == Envelope(Str_Off, JList(<<>>), Kw(<<>>))

EnvBogusKwargs ==
    Envelope(Str_bogus, JList(<<JStr(Str_a)>>),
             Kw(<< <<Str_brightness, Str_0_6>>, <<Str_color, Str_255_0_0>> >>))

\* d[key] for a str key
GetItem(d, key) ==
    IF d.t # "dict" THEN Raise("TypeError")
    ELSE IF \E i \in 1..Len(d.v) : d.v[i][1] = key
    THEN Ok(d.v[CHOOSE i \in 1..Len(d.v) : d.v[i][1] = key][2])
    ELSE Raise("KeyError")

\* ---- app/neopixel/routes.py: the handlers of the web producer -----------

\* "command_name"
Str_command_name == <<99, 111, 109, 109, 97, 110, 100, 95, 110, 97, 109, 101>>

\* "command_args"
Str_command_args == <<99, 111, 109, 109, 97, 110, 100, 95, 97, 114, 103, 115>>

\* "command_kwargs"
Str_command_kwargs ==
    <<99, 111, 109, 109, 97, 110, 100, 95, 107, 119, 97, 114, 103, 115>>

\* request.args.get(key, default): the query string maps str to str
QueryGet(query, key, default) ==
    IF IsOk(GetItem(query, key)) THEN GetItem(query, key).val ELSE default

\* /np/set: the command it hands to write_command, or the KeyError that
\* becomes a 404
set_light(query) ==
    IF ~IsOk(GetItem(query, Str_brightness)) THEN GetItem(query, Str_brightness)
    ELSE IF ~IsOk(GetItem(query, Str_color)) THEN GetItem(query, Str_color)
    ELSE Ok(Envelope(Str_set, JList(<<>>),
                     JDict(<< <<Str_brightness, GetItem(query, Str_brightness).val>>,
                              <<Str_color, GetItem(query, Str_color).val>> >>)))

\* /np/off: the command it hands to write_command
off == Envelope(Str_off, JList(<<>>), Kw(<<>>))

\* /np/submit_command: the command it hands to write_command
submit_command(query) ==
    Envelope(QueryGet(query, Str_command_name, JStr(<<>>)).v,
             QueryGet(query, Str_command_args, JList(<<>>)),
             QueryGet(query, Str_command_kwargs, JDict(<<>>)))

\* query strings of /np/set: both arguments, one, none
SetQueries ==
    {Kw(<< <<Str_brightness, Str_0_6>>, <<Str_color, Str_255_0_0>> >>),
     Kw(<< <<Str_color, Str_255_0_0>> >>), Kw(<<>>)}

\* query strings of /np/submit_command: none, and echo with an argument
SubmitQueries ==
    {Kw(<<>>),
     Kw(<< <<Str_command_name, Str_echo>>, <<Str_command_args, Str_abc>> >>)}

\* what the three handlers write
RouteEnvelopes ==
    {set_light(q).val : q \in {x \in SetQueries : IsOk(set_light(x))}}
    \cup {off}
    \cup {submit_command(q) : q \in SubmitQueries}

\* echo with a list among its positional arguments
EnvEchoNested == Envelope(Str_echo, JList(<<JStr(Str_a), JList(<<>>)>>), Kw(<<>>))

WellFormedEnvelopes == {EnvEcho, EnvOff, EnvSetDec}

Envelopes ==
    WellFormedEnvelopes \cup
    {EnvSetHex, EnvSetNoBrightness, EnvSetBadColor, EnvSetBadBrightness, EnvBogus}

\* what the producer of the transport sends: the commands of the sample
\* producer, those of the three handlers, and an echo that is no list of
\* strings
TransportEnvelopes == {EnvEcho, EnvOff, EnvEchoNested} \cup RouteEnvelopes

\* every JSON document that occurs as a payload of the model
JsonDocuments ==
    Envelopes \cup TransportEnvelopes \cup {JDict(<<>>), JList(<<>>)}

\* the serialisation of each document of the model
Serialised == [d \in JsonDocuments |-> json_dumps(d)]

\* bytes.decode("utf-8") on the payloads of the model, whose bytes are ASCII
\* or 255 (never valid in UTF-8)
utf8_decode(payload) ==
    IF \E i \in 1..Len(payload) : payload[i] >= 128
    THEN Raise("UnicodeDecodeError")
    ELSE Ok(payload)

\* json.loads(text): the document whose serialisation text is; every other
\* text of the model (the empty text, a cut serialisation, a lone brace) is
\* not JSON
json_loads(text) ==
    IF \E d \in JsonDocuments : Serialised[d] = text
    THEN Ok(CHOOSE d \in JsonDocuments : Serialised[d] = text)
    ELSE Raise("JSONDecodeError")

\* ------------------------------------------------------------------------
\* Python built-ins used by the commands, on the strings of the model
\* (digits, letters, ".", "-", "+" and the blank)
\* ------------------------------------------------------------------------

IsDigit(c) == c \in 48..57

RECURSIVE DigitsValue(_)
DigitsValue(s) ==
    IF s = <<>> THEN 0
    ELSE 10 * DigitsValue(SubSeq(s, 1, Len(s) - 1)) + (s[Len(s)] - 48)

RECURSIVE PyStrip(_)
\* s.strip() on the strings of the model, whose only whitespace is the blank
PyStrip(s) ==
    IF s # <<>> /\ s[1] = 32 THEN PyStrip(Tail(s))
    ELSE IF s # <<>> /\ s[Len(s)] = 32 THEN PyStrip(SubSeq(s, 1, Len(s) - 1))
    ELSE s

\* int(s): base 10, so a "0x" prefix is an invalid literal; whitespace
\* around the literal and a sign before the digits are accepted (the
\* strings of the model hold no underscore)
PyInt(s) ==
    LET t      == PyStrip(s)
        signed == t # <<>> /\ t[1] \in {43, 45}
        d      == IF signed THEN Tail(t) ELSE t
    IN  IF d # <<>> /\ \A i \in 1..Len(d) : IsDigit(d[i])
        THEN Ok(IF signed /\ t[1] = 45 THEN 0 - DigitsValue(d) ELSE DigitsValue(d))
        ELSE Raise("ValueError")

RECURSIVE Pow10(_)
Pow10(n) == IF n = 0 THEN 1 ELSE 10 * Pow10(n - 1)

\* float(s) for s of digits with at most one ".": the fraction num / den
PyFloat(s) ==
    LET dots   == {i \in 1..Len(s) : s[i] = 46}
        digits == SelectSeq(s, IsDigit)
    IN  IF /\ \A i \in 1..Len(s) : IsDigit(s[i]) \/ s[i] = 46
           /\ Cardinality(dots) <= 1
           /\ digits # <<>>
        THEN Ok([num |-> DigitsValue(digits),
                 den |-> IF dots = {} THEN 1
                         ELSE Pow10(Len(s) - (CHOOSE i \in dots : TRUE))])
        ELSE Raise("ValueError")

\* s[a:b]
Slice(s, a, b) ==
    SubSeq(s, a + 1, IF b < Len(s) THEN b ELSE Len(s))

RECURSIVE PySplit(_, _)
\* s.split(sep) for a one-character sep
PySplit(s, sep) ==
    IF \A i \in 1..Len(s) : s[i] # sep THEN <<s>>
    ELSE LET k == CHOOSE i \in 1..Len(s) :
                     s[i] = sep /\ \A j \in 1..(i - 1) : s[j] # sep
         IN  <<SubSeq(s, 1, k - 1)>> \o PySplit(SubSeq(s, k + 1, Len(s)), sep)

\* " ".join(x): x must be an iterable of str
JoinArgs(x) ==
    IF x.t = "list" /\ \E i \in 1..Len(x.v) : x.v[i].t # "str"
    THEN Raise("TypeError")
    ELSE Ok(TRUE)

\* x.items()
Items(x) == IF x.t = "dict" THEN Ok(TRUE) ELSE Raise("AttributeError")

\* the expression that formats a command for the debug log: the name, the
\* joined positional arguments, the keyword items, evaluated left to right
FormatCommand(command) ==
    LET name   == GetItem(command, COMMAND_NAME)
        args   == GetItem(command, COMMAND_POSITIONAL_ARGUMENTS)
        kwargs == GetItem(command, COMMAND_KEYWORD_ARGUMENTS)
    IN  IF ~IsOk(name) THEN name
        ELSE IF ~IsOk(args) THEN args
        ELSE IF ~IsOk(JoinArgs(args.val)) THEN JoinArgs(args.val)
        ELSE IF ~IsOk(kwargs) THEN kwargs
        ELSE Items(kwargs.val)

\* ------------------------------------------------------------------------
\* commands/command.py, off_command.py, set_light.py
\* ------------------------------------------------------------------------

MAX_NUM_PIXELS == 36

\* Command.__subclasses__(), in definition order
Subclasses == <<"OffCommand", "SetLightCommand", "EchoCommand">>

command_name(cls) ==
    CASE cls = "OffCommand"      -> Str_off
      [] cls = "SetLightCommand" -> Str_set
      [] cls = "EchoCommand"     -> Str_echo

\* Command.__init__ dropping the positional arguments
NewCommand_without_args(cls, args, kwargs) ==
    [cls |-> cls, args |-> JList(<<>>), kwargs |-> kwargs]

\* Command.__init__
NewCommand(cls, args, kwargs) == [cls |-> cls, args |-> args, kwargs |-> kwargs]

\* build_command falling back on the first subclass when no name matches
build_command_first_subclass(command) ==
    LET name    == GetItem(command, COMMAND_NAME).val
        matches == {i \in 1..Len(Subclasses) :
                        JStr(command_name(Subclasses[i])) = name}
    IN  IF ~IsOk(FormatCommand(command)) THEN FormatCommand(command)
        ELSE Ok(NewCommand(
                  Subclasses[IF matches = {} THEN 1
                             ELSE CHOOSE i \in matches : \A j \in matches : i <= j],
                  GetItem(command, COMMAND_POSITIONAL_ARGUMENTS).val,
                  GetItem(command, COMMAND_KEYWORD_ARGUMENTS).val))

\* Command.build_command: the first subclass whose command_name() is the
\* command's name, constructed with the command's arguments
build_command(command) ==
    LET name    == GetItem(command, COMMAND_NAME).val
        matches == {i \in 1..Len(Subclasses) :
                        JStr(command_name(Subclasses[i])) = name}
    IN  IF ~IsOk(FormatCommand(command)) THEN FormatCommand(command)
        ELSE IF matches = {} THEN Raise("ValueError")
        ELSE Ok(NewCommand(
                  Subclasses[CHOOSE i \in matches : \A j \in matches : i <= j],
                  GetItem(command, COMMAND_POSITIONAL_ARGUMENTS).val,
                  GetItem(command, COMMAND_KEYWORD_ARGUMENTS).val))

\* _get_color returning the components in reverse order
get_color_reversed(color) ==
    IF Slice(color, 0, 2) = Str_0x
    THEN LET r == PyInt(Str_0x \o Slice(color, 2, 4))
             g == PyInt(Str_0x \o Slice(color, 4, 6))
             b == PyInt(Str_0x \o Slice(color, 6, 8))
         IN  IF ~IsOk(r) THEN r
             ELSE IF ~IsOk(g) THEN g
             ELSE IF ~IsOk(b) THEN b
             ELSE Ok(<<b.val, g.val, r.val>>)
    ELSE IF \E i \in 1..Len(color) : color[i] = 45
    THEN LET parts == PySplit(color, 45)
         IN  IF \E i \in 1..Len(parts) : ~IsOk(PyInt(parts[i]))
             THEN Raise("ValueError")
             ELSE IF Len(parts) # 3 THEN Raise("ValueError")
             ELSE Ok(<<PyInt(parts[3]).val, PyInt(parts[2]).val,
                       PyInt(parts[1]).val>>)
    ELSE Raise("ValueError")

\* _get_color taking black for a string it cannot parse
get_color_falling_back(color) ==
    IF Slice(color, 0, 2) = Str_0x
    THEN LET r == PyInt(Str_0x \o Slice(color, 2, 4))
             g == PyInt(Str_0x \o Slice(color, 4, 6))
             b == PyInt(Str_0x \o Slice(color, 6, 8))
         IN  IF ~IsOk(r) \/ ~IsOk(g) \/ ~IsOk(b) THEN Ok(<<0, 0, 0>>)
             ELSE Ok(<<r.val, g.val, b.val>>)
    ELSE IF \E i \in 1..Len(color) : color[i] = 45
    THEN LET parts == PySplit(color, 45)
         IN  IF \E i \in 1..Len(parts) : ~IsOk(PyInt(parts[i]))
             THEN Ok(<<0, 0, 0>>)
             ELSE IF Len(parts) # 3 THEN Ok(<<0, 0, 0>>)
             ELSE Ok(<<PyInt(parts[1]).val, PyInt(parts[2]).val,
                       PyInt(parts[3]).val>>)
    ELSE Ok(<<0, 0, 0>>)

\* SetLightCommand._get_color
get_color(color) ==
    IF Slice(color, 0, 2) = Str_0x
    THEN LET r == PyInt(Str_0x \o Slice(color, 2, 4))
             g == PyInt(Str_0x \o Slice(color, 4, 6))
             b == PyInt(Str_0x \o Slice(color, 6, 8))
         IN  IF ~IsOk(r) THEN r
             ELSE IF ~IsOk(g) THEN g
             ELSE IF ~IsOk(b) THEN b
             ELSE Ok(<<r.val, g.val, b.val>>)
    ELSE IF \E i \in 1..Len(color) : color[i] = 45
    THEN LET parts == PySplit(color, 45)
         IN  IF \E i \in 1..Len(parts) : ~IsOk(PyInt(parts[i]))
             THEN Raise("ValueError")
             ELSE IF Len(parts) # 3 THEN Raise("ValueError")
             ELSE Ok(<<PyInt(parts[1]).val, PyInt(parts[2]).val,
                       PyInt(parts[3]).val>>)
    ELSE Raise("ValueError")

\* the strip as the driver last programmed it
Strip(color, brightness) ==
    [pixels |-> [i \in 1..MAX_NUM_PIXELS |-> color], brightness |-> brightness]

FullBrightness == [num |-> 1, den |-> 1]

\* the calls a command makes on the neopixel driver
CallNeoPixel(n, brightness, auto_write) ==
    [op |-> "NeoPixel", n |-> n, brightness |-> brightness,
     auto_write |-> auto_write]

CallFill(color) == [op |-> "fill", color |-> color]

CallShow == [op |-> "show"]

\* the driver while a command runs: the pixel object the command holds (its
\* buffer, brightness and auto_write), the strip as last flushed, the
\* flushes so far, and how the last call ended
Driver(st) == [px |-> Null, hw |-> st, flushes |-> 0, out |-> Ok(TRUE)]

\* pixels.show(): the buffer goes out to the strip
show(d) ==
    [d EXCEPT !.hw = [pixels |-> d.px.buf, brightness |-> d.px.brightness],
              !.flushes = @ + 1]

\* one call on the driver: the constructor acquires the strip (the driver
\* may refuse) with a blank buffer; fill writes the buffer and, with
\* auto_write, shows it at once
ApplyCall(call, d, driverOk) ==
    CASE call.op = "NeoPixel" ->
            IF ~driverOk THEN [d EXCEPT !.out = Raise("ActuatorError")]
            ELSE [d EXCEPT !.px = [buf |-> [i \in 1..call.n |-> <<0, 0, 0>>],
                                   brightness |-> call.brightness,
                                   auto_write |-> call.auto_write]]
      [] call.op = "fill" ->
            LET filled == [d EXCEPT !.px.buf = [i \in DOMAIN @ |-> call.color]]
            IN  IF d.px.auto_write THEN show(filled) ELSE filled
      [] call.op = "show" -> show(d)

RECURSIVE RunCalls(_, _, _)
\* the calls in order, up to the first one that raises
RunCalls(calls, d, driverOk) ==
    IF calls = <<>> \/ ~IsOk(d.out) THEN d
    ELSE RunCalls(Tail(calls), ApplyCall(Head(calls), d, driverOk), driverOk)

\* OffCommand.execute with auto_write off and no show
OffCommand_calls_unflushed(self) ==
    Ok(<<CallNeoPixel(MAX_NUM_PIXELS, FullBrightness, FALSE),
         CallFill(<<0, 0, 0>>)>>)

\* OffCommand.execute: NeoPixel(PIXEL_PIN, MAX_NUM_PIXELS) with the default
\* brightness and auto_write, then fill((0, 0, 0))
OffCommand_calls(self) ==
    Ok(<<CallNeoPixel(MAX_NUM_PIXELS, FullBrightness, TRUE),
         CallFill(<<0, 0, 0>>)>>)

\* SetLightCommand.execute with full brightness and black standing in for
\* a keyword argument that is missing
SetLightCommand_calls_defaulting(self) ==
    LET bstr       == GetItem(self.kwargs, Str_brightness)
        brightness == IF IsOk(bstr) THEN PyFloat(bstr.val.v) ELSE Ok(FullBrightness)
        cstr       == GetItem(self.kwargs, Str_color)
        color      == IF IsOk(cstr) THEN get_color(cstr.val.v) ELSE Ok(<<0, 0, 0>>)
    IN  IF ~IsOk(brightness) THEN brightness
        ELSE IF ~IsOk(color) THEN color
        ELSE Ok(<<CallNeoPixel(MAX_NUM_PIXELS, brightness.val, FALSE),
                  CallFill(color.val), CallShow>>)

\* SetLightCommand.execute with auto_write left at its default
SetLightCommand_calls_auto_write(self) ==
    LET bstr       == GetItem(self.kwargs, Str_brightness)
        brightness == PyFloat(bstr.val.v)
        cstr       == GetItem(self.kwargs, Str_color)
        color      == get_color(cstr.val.v)
    IN  IF ~IsOk(bstr) THEN bstr
        ELSE IF ~IsOk(brightness) THEN brightness
        ELSE IF ~IsOk(cstr) THEN cstr
        ELSE IF ~IsOk(color) THEN color
        ELSE Ok(<<CallNeoPixel(MAX_NUM_PIXELS, brightness.val, TRUE),
                  CallFill(color.val), CallShow>>)

\* SetLightCommand.execute: the two keyword arguments are read and parsed
\* first; then NeoPixel(..., brightness=brightness, auto_write=False),
\* fill(color), show()
SetLightCommand_calls(self) ==
    LET bstr       == GetItem(self.kwargs, Str_brightness)
        brightness == PyFloat(bstr.val.v)
        cstr       == GetItem(self.kwargs, Str_color)
        color      == get_color(cstr.val.v)
    IN  IF ~IsOk(bstr) THEN bstr
        ELSE IF ~IsOk(brightness) THEN brightness
        ELSE IF ~IsOk(cstr) THEN cstr
        ELSE IF ~IsOk(color) THEN color
        ELSE Ok(<<CallNeoPixel(MAX_NUM_PIXELS, brightness.val, FALSE),
                  CallFill(color.val), CallShow>>)

\* EchoCommand.execute blanking the strip as off does
EchoCommand_calls_blanking(self) ==
    Ok(<<CallNeoPixel(MAX_NUM_PIXELS, FullBrightness, TRUE),
         CallFill(<<0, 0, 0>>)>>)

\* EchoCommand.execute: logs the name and the arguments, calls no driver
EchoCommand_calls(self) ==
    IF ~IsOk(JoinArgs(self.args)) THEN JoinArgs(self.args)
    ELSE IF ~IsOk(Items(self.kwargs)) THEN Items(self.kwargs)
    ELSE Ok(<<>>)

\* what execute() of the class does before and on the driver
calls(self) ==
    CASE self.cls = "OffCommand"      -> OffCommand_calls(self)
      [] self.cls = "SetLightCommand" -> SetLightCommand_calls(self)
      [] self.cls = "EchoCommand"     -> EchoCommand_calls(self)

\* execute() run to its end: how it ended and what the strip shows
Run(plan, st, driverOk) ==
    IF ~IsOk(plan) THEN [out |-> plan, hw |-> st]
    ELSE [out |-> RunCalls(plan.val, Driver(st), driverOk).out,
          hw  |-> RunCalls(plan.val, Driver(st), driverOk).hw]

OffCommand_execute(self, st, driverOk) == Run(OffCommand_calls(self), st, driverOk)

SetLightCommand_execute(self, st, driverOk) ==
    Run(SetLightCommand_calls(self), st, driverOk)

EchoCommand_execute(self, st, driverOk) == Run(EchoCommand_calls(self), st, driverOk)

\* command.execute(), dispatched on the class
execute(self, st, driverOk) ==
    CASE self.cls = "OffCommand"      -> OffCommand_execute(self, st, driverOk)
      [] self.cls = "SetLightCommand" -> SetLightCommand_execute(self, st, driverOk)
      [] self.cls = "EchoCommand"     -> EchoCommand_execute(self, st, driverOk)

\* ------------------------------------------------------------------------
\* The relay: filesystem, inbound FIFO, producer, daemon, strip
\* ------------------------------------------------------------------------

AllOff == Strip(<<0, 0, 0>>, FullBrightness)

AllLit == Strip(<<255, 255, 255>>, FullBrightness)

\* pLast: what was at the path when write_command was called, how the call
\* ended, what the call left at the path
NoWrite == [path |-> "none", out |-> "none", after |-> "none"]

\* the invocations of main.py, named by their pids: two, as many as the
\* interleavings of --start and --kill need
Invocations == {1, 2}

\* -s/--start and -k/--kill
Flags == {[start |-> st, kill |-> k] : st, k \in BOOLEAN}

NoFlags == [start |-> FALSE, kill |-> FALSE]

\* os.getuid(): root or an ordinary user
Uids == {0, 1000}

\* no invocation of main.py so far
StartIdle ==
    /\ pidFile = 0
    /\ running = {}
    /\ logFiles = 0
    /\ sigPending = {}
    /\ dOwner = 0
    /\ iPc = [p \in Invocations |-> "idle"]
    /\ iArgs = [p \in Invocations |-> NoFlags]
    /\ iUid = [p \in Invocations |-> 0]
    /\ iExc = [p \in Invocations |-> "none"]

\* invocation 1, run as root with --start, has reached main()
Started ==
    /\ pidFile = 1
    /\ running = {1}
    /\ logDir = "dir"
    /\ logFiles = 1
    /\ workDir = "dir"
    /\ sigPending = {}
    /\ dOwner = 1
    /\ iPc = [p \in Invocations |-> IF p = 1 THEN "loop" ELSE "idle"]
    /\ iArgs = [p \in Invocations |->
                  IF p = 1 THEN [start |-> TRUE, kill |-> FALSE] ELSE NoFlags]
    /\ iUid = [p \in Invocations |-> 0]
    /\ iExc = [p \in Invocations |-> "none"]

\* the relay before the daemon enters main(): the two paths are absent or
\* left over from an earlier run, the strip shows whatever it was last told
RelayInit ==
    /\ fsIn \in {"absent", "fifo"}
    /\ fsOut = fsIn
    /\ fileIn = <<>>
    /\ pipeBuf = <<>>
    /\ writers = 0
    /\ wSeen = FALSE
    /\ dPc = "main"
    /\ rbuf = <<>>
    /\ rEof = FALSE
    /\ dCommand = Null
    /\ dCmd = Null
    /\ dFault = Null
    /\ exitStatus = -1
    /\ lastSig = "none"
    /\ hw \in {AllOff, AllLit}
    /\ received = <<>>
    /\ executed = <<>>
    /\ written = <<>>
    /\ pPc = "idle"
    /\ pData = <<>>
    /\ pSent = 0
    /\ pLast = NoWrite
    /\ Started

\* the relay parked, for the codec exercise
RelayIdle ==
    /\ fsIn = "absent"
    /\ fsOut = "absent"
    /\ fileIn = <<>>
    /\ pipeBuf = <<>>
    /\ writers = 0
    /\ wSeen = FALSE
    /\ dPc = "exited"
    /\ rbuf = <<>>
    /\ rEof = FALSE
    /\ dCommand = Null
    /\ dCmd = Null
    /\ dFault = Null
    /\ exitStatus = 0
    /\ lastSig = "none"
    /\ hw = AllOff
    /\ received = <<>>
    /\ executed = <<>>
    /\ written = <<>>
    /\ pPc = "idle"
    /\ pData = <<>>
    /\ pSent = 0
    /\ pLast = NoWrite
    /\ logDir = "absent"
    /\ workDir = "absent"
    /\ StartIdle

\* the daemon holds a read end of the FIFO: blocked in open() or reading
ReaderPresent == fsIn = "fifo" /\ dPc \in {"wait", "read"}

\* the frame write_command writes for a command dict
FrameOf(payload) == create_msg(Bytes(payload)).val.body

\* ---- producer: write_command, and a writer that stops short ------------

\* write_command(command, args, kwargs): open(fifo, "wb") creates or
\* truncates a regular file when the path is no FIFO, and the frame lands
\* in it; on a FIFO the open blocks until a reader is there
write_command(e) ==
    /\ pPc = "idle"
    /\ pSent < MaxMsgs
    /\ pSent' = pSent + 1
    /\ IF fsIn = "fifo"
       THEN /\ pPc' = "opening"
            /\ pData' = FrameOf(json_dumps(e))
            /\ pLast' = [path |-> fsIn, out |-> "blocked", after |-> fsIn]
            /\ UNCHANGED <<fsVars, written>>
       ELSE /\ fsIn' = "file"
            /\ fileIn' = FrameOf(json_dumps(e))
            /\ pLast' = [path |-> fsIn, out |-> "returned", after |-> "file"]
            /\ written' = Append(written, FrameOf(json_dumps(e)))
            /\ UNCHANGED <<fsOut, pPc, pData>>
    /\ UNCHANGED <<pipeVars, daemonVars, hw, received, executed, startVars, exerciseVars>>

CutPoints == {0, 2, 4, 20}

\* what a writer other than write_command may deliver before it closes: a
\* frame of EnvOff cut short, or the frame of a payload that is no command
RawStreams ==
    {SubSeq(FrameOf(json_dumps(EnvOff)), 1, k) : k \in CutPoints}
    \cup {FrameOf(p) : p \in {<<123, 125>>, <<91, 93>>, <<255>>, <<123>>}}

\* any process that can open the inbound pipe for writing
ExternalWriter ==
    /\ pPc = "idle"
    /\ pSent < MaxMsgs
    /\ fsIn = "fifo"
    /\ pSent' = pSent + 1
    /\ pPc' = "opening"
    /\ \E raw \in RawStreams : pData' = raw
    /\ UNCHANGED <<pLast, fsVars, pipeVars, daemonVars, hw, histVars, startVars, exerciseVars>>

\* the writer's open() returns once the FIFO has a reader
WriterOpened ==
    /\ pPc = "opening"
    /\ ReaderPresent
    /\ pPc' = "opened"
    /\ writers' = writers + 1
    /\ wSeen' = TRUE
    /\ UNCHANGED <<pData, pSent, pLast, pipeBuf, fsVars, daemonVars, hw,
                   histVars, startVars, exerciseVars>>

\* the buffered bytes reach the pipe in one write (EPIPE without a reader)
WriterFlush ==
    /\ pPc = "opened"
    /\ pPc' = "written"
    /\ IF ReaderPresent
       THEN pipeBuf' = pipeBuf \o pData /\ pLast' = [pLast EXCEPT !.out = "returned"]
       ELSE pipeBuf' = pipeBuf /\ pLast' = [pLast EXCEPT !.out = "BrokenPipeError"]
    /\ UNCHANGED <<pData, pSent, writers, wSeen, fsVars, daemonVars, hw,
                   histVars, startVars, exerciseVars>>

\* the write end closes; a FIFO nobody holds open drops its bytes
WriterClose ==
    /\ pPc = "written"
    /\ pPc' = "idle"
    /\ writers' = writers - 1
    /\ pipeBuf' = IF writers = 1 /\ ~ReaderPresent THEN <<>> ELSE pipeBuf
    /\ written' = IF pLast.out = "returned" THEN Append(written, pData) ELSE written
    /\ UNCHANGED <<pData, pSent, pLast, wSeen, fsVars, daemonVars, hw,
                   received, executed, startVars, exerciseVars>>

\* ---- daemon: main() and the signal handlers ----------------------------

\* an exception nobody catches leaves main() and the with block, whose exit
\* releases the PID file; the process ends with status 1
Die(stage, exc) ==
    /\ dPc' = "dead"
    /\ dFault' = [stage |-> stage, exc |-> exc]
    /\ exitStatus' = 1
    /\ pidFile' = IF pidFile = dOwner THEN 0 ELSE pidFile
    /\ running' = running \ {dOwner}

\* the read end closes; a FIFO nobody holds open drops its bytes
ReaderGone == pipeBuf' = IF writers = 0 THEN <<>> ELSE pipeBuf

\* main(), before the loop: create the two pipes unless the paths exist
\* (os.mkfifo may fail, and nobody catches that), then enter
\* read_command(), whose open() waits for a writer
DaemonMain ==
    /\ dPc = "main"
    /\ \E mkfifoOk \in BOOLEAN :
          IF mkfifoOk \/ (fsOut # "absent" /\ fsIn # "absent")
          THEN /\ fsOut' = IF fsOut = "absent" THEN "fifo" ELSE fsOut
               /\ fsIn' = IF fsIn = "absent" THEN "fifo" ELSE fsIn
               /\ dPc' = "wait"
               /\ wSeen' = FALSE
               /\ UNCHANGED <<dFault, exitStatus, pidFile, running>>
          ELSE /\ Die("mkfifo", "OSError")
               /\ UNCHANGED <<fsIn, fsOut, wSeen>>
    /\ UNCHANGED <<fileIn, pipeBuf, writers, rbuf, rEof, dCommand, dCmd, lastSig,
                   hw, histVars, producerVars, startVars, exerciseVars>>

\* get_message: open(fifo, "rb") returns, at once on a regular file, on a
\* FIFO once a writer has opened it
DaemonOpen ==
    /\ dPc = "wait"
    /\ Len(received) < MaxReads
    /\ \/ /\ fsIn = "fifo"
          /\ writers > 0 \/ wSeen
          /\ rbuf' = <<>>
          /\ rEof' = FALSE
       \/ /\ fsIn = "file"
          /\ rbuf' = fileIn
          /\ rEof' = TRUE
    /\ dPc' = "read"
    /\ UNCHANGED <<fsVars, pipeVars, dCommand, dCmd, dFault, exitStatus, pidFile, running, lastSig,
                   hw, histVars, producerVars, startVars, exerciseVars>>

\* the reader holds the 4 length bytes and the payload they declare
Enough(buf) ==
    /\ Len(buf) >= 4
    /\ BigLeq(decode_msg_size(SubSeq(buf, 1, 4)).val, BigOfNat(Len(buf) - 4))

\* fifo_h.read(): the buffered reader takes what the pipe holds
DaemonRawRead ==
    /\ dPc = "read"
    /\ ~rEof
    /\ ~Enough(rbuf)
    /\ pipeBuf # <<>>
    /\ rbuf' = rbuf \o pipeBuf
    /\ pipeBuf' = <<>>
    /\ UNCHANGED <<fsVars, writers, wSeen, dPc, rEof, dCommand, dCmd, dFault,
                   exitStatus, pidFile, running, lastSig, hw, histVars, producerVars, startVars, exerciseVars>>

\* fifo_h.read(): the pipe is empty and no writer holds it: end of file
DaemonReadEof ==
    /\ dPc = "read"
    /\ ~rEof
    /\ ~Enough(rbuf)
    /\ pipeBuf = <<>>
    /\ writers = 0
    /\ rEof' = TRUE
    /\ UNCHANGED <<fsVars, pipeVars, dPc, rbuf, dCommand, dCmd, dFault,
                   exitStatus, pidFile, running, lastSig, hw, histVars, producerVars, startVars, exerciseVars>>

\* read_command on what the reader obtained: get_message, decode, json.loads
read_command(stream) ==
    LET msg  == get_message(stream)
        text == utf8_decode(Materialize(msg.val))
        doc  == json_loads(text.val)
    IN  IF ~IsOk(msg) THEN [stage |-> "get_message", out |-> msg, msg |-> msg]
        ELSE IF ~IsOk(text) THEN [stage |-> "decode", out |-> text, msg |-> msg]
        ELSE [stage |-> "json_loads", out |-> doc, msg |-> msg]

\* the two reads of get_message return, the pipe is closed, and
\* read_command decodes the payload
DaemonReadDone ==
    /\ dPc = "read"
    /\ Enough(rbuf) \/ rEof
    /\ LET r == read_command(Bytes(rbuf))
       IN  /\ received' =
                  IF IsOk(r.msg)
                  THEN Append(received,
                              [declared |-> decode_msg_size(SubSeq(rbuf, 1, 4)).val,
                               payload  |-> Materialize(r.msg.val)])
                  ELSE received
           /\ IF IsOk(r.out)
              THEN /\ dCommand' = r.out.val
                   /\ dPc' = "got"
                   /\ UNCHANGED <<dFault, exitStatus, pidFile, running>>
              ELSE /\ Die(r.stage, r.out.exc)
                   /\ UNCHANGED dCommand
    /\ IF fsIn = "fifo" THEN ReaderGone ELSE UNCHANGED pipeBuf
    /\ rbuf' = <<>>
    /\ rEof' = FALSE
    /\ UNCHANGED <<fsVars, writers, wSeen, dCmd, lastSig, hw, executed, written,
                   producerVars, startVars, exerciseVars>>

\* main(): the debug line that formats the command, then build_command
DaemonDispatch ==
    /\ dPc = "got"
    /\ IF ~IsOk(FormatCommand(dCommand))
       THEN Die("main", FormatCommand(dCommand).exc) /\ UNCHANGED dCmd
       ELSE IF ~IsOk(build_command(dCommand))
       THEN Die("build_command", build_command(dCommand).exc) /\ UNCHANGED dCmd
       ELSE /\ dCmd' = build_command(dCommand).val
            /\ dPc' = "built"
            /\ UNCHANGED <<dFault, exitStatus, pidFile, running>>
    /\ UNCHANGED <<fsVars, pipeVars, rbuf, rEof, dCommand, lastSig, hw, histVars,
                   producerVars, startVars, exerciseVars>>

\* a loop that goes back to read_command() leaving the command to run later
DaemonExecuteDeferred ==
    /\ dPc = "built"
    /\ dPc' = "wait"
    /\ wSeen' = (writers > 0)
    /\ UNCHANGED <<fsVars, pipeBuf, writers, rbuf, rEof, dCommand, dCmd, dFault,
                   exitStatus, pidFile, running, lastSig, hw, histVars, producerVars, startVars, exerciseVars>>

\* main(): .execute() on the built command, then the next read_command()
DaemonExecute ==
    /\ dPc = "built"
    /\ \E driverOk \in BOOLEAN :
          LET r == execute(dCmd, hw, driverOk)
          IN  /\ hw' = r.hw
              /\ IF IsOk(r.out)
                 THEN /\ executed' = Append(executed, dCmd)
                      /\ dPc' = "wait"
                      /\ wSeen' = (writers > 0)
                      /\ UNCHANGED <<dFault, exitStatus, pidFile, running>>
                 ELSE /\ Die("execute", r.out.exc)
                      /\ UNCHANGED <<executed, wSeen>>
    /\ UNCHANGED <<fsVars, pipeBuf, writers, rbuf, rEof, dCommand, dCmd, lastSig,
                   received, written, producerVars, startVars, exerciseVars>>

Signals == {"SIGTERM", "SIGHUP", "SIGINT"}

\* context.signal_map
signal_map(sig) ==
    CASE sig = "SIGTERM" -> "_terminate"
      [] sig = "SIGHUP"  -> "_hangup"
      [] sig = "SIGINT"  -> "_interrupt"

\* handlers defined as def handler(signum, frame)
handler_params_signum_frame(h) ==
    CASE h = "_terminate" -> 2
      [] h = "_hangup"    -> 2
      [] h = "_interrupt" -> 2

\* the parameters each handler is defined with: def _interrupt() -> None,
\* def _terminate() -> None, def _hangup() -> None
handler_params(h) ==
    CASE h = "_terminate" -> 0
      [] h = "_hangup"    -> 0
      [] h = "_interrupt" -> 0

\* what the body of a handler does once entered: log and return, or exit(0)
handler_body(h) ==
    IF h = "_interrupt" THEN Raise("SystemExit") ELSE Ok(TRUE)

\* Python calls a signal handler as handler(signum, frame)
invoke_handler(sig) ==
    IF handler_params(signal_map(sig)) # 2 THEN Raise("TypeError")
    ELSE handler_body(signal_map(sig))

\* the handler of a signal runs in the main thread: it returns, or its
\* exception leaves main()
HandleSignal(sig) ==
    /\ lastSig' = sig
    /\ IF IsOk(invoke_handler(sig))
       THEN UNCHANGED <<dPc, dFault, exitStatus, pidFile, running, pipeBuf, rbuf, rEof>>
       ELSE /\ IF invoke_handler(sig).exc = "SystemExit"
               THEN /\ dPc' = "exited"
                    /\ exitStatus' = 0
                    /\ pidFile' = IF pidFile = dOwner THEN 0 ELSE pidFile
                    /\ running' = running \ {dOwner}
                    /\ UNCHANGED dFault
               ELSE Die("signal", invoke_handler(sig).exc)
            /\ IF ReaderPresent THEN ReaderGone ELSE UNCHANGED pipeBuf
            /\ rbuf' = <<>>
            /\ rEof' = FALSE

\* a signal arrives while main() runs
DaemonSignal ==
    /\ dPc \in {"main", "wait", "read", "got", "built"}
    /\ \E sig \in Signals : HandleSignal(sig)
    /\ UNCHANGED <<fsVars, writers, wSeen, dCommand, dCmd, hw, histVars,
                   producerVars, startVars, exerciseVars>>

\* a SIGTERM that kill sent reaches the daemon while main() runs
DaemonKilled ==
    /\ dPc \in {"main", "wait", "read", "got", "built"}
    /\ dOwner \in sigPending
    /\ HandleSignal("SIGTERM")
    /\ sigPending' = sigPending \ {dOwner}
    /\ UNCHANGED <<fsVars, writers, wSeen, dCommand, dCmd, hw, histVars,
                   producerVars, logDir, logFiles, workDir, dOwner, iPc, iArgs,
                   iUid, iExc, exerciseVars>>

\* ---- an invocation of main.py, from the module body to main() ----------

\* the invocation moves on
Step(p, pc) == iPc' = [iPc EXCEPT ![p] = pc]

\* an exception nobody catches ends the invocation with status 1
Fail(p, exc) ==
    /\ iPc' = [iPc EXCEPT ![p] = "failed"]
    /\ iExc' = [iExc EXCEPT ![p] = exc]

\* python main.py [-s] [-k]: the module body runs first; its logging setup
\* makes the logs directory unless it exists and opens a new debug log file
Launch(p) ==
    /\ iPc[p] = "idle"
    /\ \A q \in Invocations : q < p => iPc[q] # "idle"
    /\ \E uid \in Uids, flags \in Flags :
          /\ iUid' = [iUid EXCEPT ![p] = uid]
          /\ iArgs' = [iArgs EXCEPT ![p] = flags]
    /\ logDir' = "dir"
    /\ logFiles' = logFiles + 1
    /\ Step(p, "imported")
    /\ UNCHANGED <<fsVars, pipeVars, daemonVars, hw, histVars, producerVars,
                   workDir, sigPending, dOwner, iExc, exerciseVars>>

\* _has_admin_privileges() on Linux: os.getuid() == 0
has_admin_privileges(uid) == uid = 0

\* if not _has_admin_privileges(): raise PermissionError
CheckPrivilege(p) ==
    /\ iPc[p] = "imported"
    /\ IF has_admin_privileges(iUid[p])
       THEN Step(p, "checked") /\ UNCHANGED iExc
       ELSE Fail(p, "PermissionError")
    /\ UNCHANGED <<fsVars, pipeVars, daemonVars, hw, histVars, producerVars,
                   logDir, logFiles, workDir, sigPending, dOwner, iArgs, iUid,
                   exerciseVars>>

\* if args.kill: kill the pid the PID file holds, if the file exists
KillBranch(p) ==
    /\ iPc[p] = "checked"
    /\ sigPending' = IF iArgs[p].kill /\ pidFile # 0
                     THEN sigPending \cup {pidFile}
                     ELSE sigPending
    /\ Step(p, "kill_resolved")
    /\ UNCHANGED <<fsVars, pipeVars, daemonVars, hw, histVars, producerVars,
                   logDir, logFiles, workDir, dOwner, iArgs, iUid, iExc,
                   exerciseVars>>

\* if args.start: make the working directory unless it exists (os.makedirs
\* may fail), configure the context; without --start the script ends here
StartBranch(p) ==
    /\ iPc[p] = "kill_resolved"
    /\ IF ~iArgs[p].start
       THEN Step(p, "done") /\ UNCHANGED <<workDir, iExc>>
       ELSE \E makedirsOk \in BOOLEAN :
               IF workDir = "dir" \/ makedirsOk
               THEN /\ workDir' = "dir"
                    /\ Step(p, "configured")
                    /\ UNCHANGED iExc
               ELSE Fail(p, "OSError") /\ UNCHANGED workDir
    /\ UNCHANGED <<fsVars, pipeVars, daemonVars, hw, histVars, producerVars,
                   logDir, logFiles, sigPending, dOwner, iArgs, iUid,
                   exerciseVars>>

\* TimeoutPIDLockFile.acquire taking the file whoever holds it
acquire_overwriting(held, pid) == Ok(pid)

\* TimeoutPIDLockFile(DAEMON_PID_FILE_PATH).acquire(), no timeout given: the
\* file is created exclusively; if it exists the call raises AlreadyLocked
acquire(held, pid) ==
    IF held # 0 THEN Raise("AlreadyLocked") ELSE Ok(pid)

\* with context: the process detaches, installs signal_map and acquires the
\* PID file, then main() is entered. The model follows main() of one
\* process, dOwner; a process that enters main() while another is inside is
\* only counted in running.
ContextEnter(p) ==
    /\ iPc[p] = "configured"
    /\ IF IsOk(acquire(pidFile, p))
       THEN /\ pidFile' = acquire(pidFile, p).val
            /\ running' = running \cup {p}
            /\ Step(p, "loop")
            /\ UNCHANGED iExc
            /\ IF dPc \in {"off", "dead", "exited"}
               THEN /\ dOwner' = p
                    /\ dPc' = "main"
                    /\ rbuf' = <<>>
                    /\ rEof' = FALSE
                    /\ dCommand' = Null
                    /\ dCmd' = Null
                    /\ dFault' = Null
                    /\ exitStatus' = -1
                    /\ lastSig' = "none"
               ELSE UNCHANGED <<dOwner, dPc, rbuf, rEof, dCommand, dCmd, dFault,
                                exitStatus, lastSig>>
       ELSE /\ Fail(p, acquire(pidFile, p).exc)
            /\ UNCHANGED <<pidFile, running, dOwner, dPc, rbuf, rEof, dCommand,
                           dCmd, dFault, exitStatus, lastSig>>
    /\ UNCHANGED <<fsVars, pipeVars, hw, histVars, producerVars, logDir, logFiles,
                   workDir, sigPending, iArgs, iUid, exerciseVars>>

\* the codec exercise parked
CodecIdle ==
    /\ cPc = "off"
    /\ cIn = Null
    /\ cFrame = Null
    /\ cCut = Null
    /\ cOut = Null

\* the command exercise parked
CommandIdle ==
    /\ xPc = "off"
    /\ xEnv = Null
    /\ xCmd = Null
    /\ xPlan = <<>>
    /\ xDrv = Null
    /\ xOps = <<>>
    /\ xOut = Null
    /\ xHw0 = Null

\* the registry exercise parked
RegistryIdle ==
    /\ gPc = "off"
    /\ gSubclasses = <<>>
    /\ gEnv = Null
    /\ gOut = Null

Init ==
    /\ RelayInit
    /\ CodecIdle
    /\ CommandIdle
    /\ RegistryIdle

Next ==
    \/ \E e \in Envelopes : write_command(e)
    \/ ExternalWriter
    \/ WriterOpened
    \/ WriterFlush
    \/ WriterClose
    \/ DaemonMain
    \/ DaemonOpen
    \/ DaemonRawRead
    \/ DaemonReadEof
    \/ DaemonReadDone
    \/ DaemonDispatch
    \/ DaemonExecute
    \/ DaemonSignal

Spec == Init /\ [][Next]_vars

\* ------------------------------------------------------------------------
\* Transport: one producer that calls write_command time after time on the
\* inbound FIFO of a running daemon, and nothing else
\* ------------------------------------------------------------------------

TransportInit == Init /\ fsIn = "fifo"

TransportNext ==
    \/ \E e \in TransportEnvelopes : write_command(e)
    \/ WriterOpened
    \/ WriterFlush
    \/ WriterClose
    \/ DaemonMain
    \/ DaemonOpen
    \/ DaemonRawRead
    \/ DaemonReadEof
    \/ DaemonReadDone
    \/ DaemonDispatch
    \/ DaemonExecute

SpecTransport == TransportInit /\ [][TransportNext]_vars

\* ------------------------------------------------------------------------
\* Start-up: invocations of main.py from the command line, the daemon each
\* --start leaves behind, the producers
\* ------------------------------------------------------------------------

\* nothing has been launched: the two pipe paths, the logs directory and the
\* working directory are absent or left over from an earlier run
StartInit ==
    /\ fsIn \in {"absent", "fifo"}
    /\ fsOut = fsIn
    /\ fileIn = <<>>
    /\ pipeBuf = <<>>
    /\ writers = 0
    /\ wSeen = FALSE
    /\ dPc = "off"
    /\ rbuf = <<>>
    /\ rEof = FALSE
    /\ dCommand = Null
    /\ dCmd = Null
    /\ dFault = Null
    /\ exitStatus = -1
    /\ lastSig = "none"
    /\ hw = AllLit
    /\ received = <<>>
    /\ executed = <<>>
    /\ written = <<>>
    /\ pPc = "idle"
    /\ pData = <<>>
    /\ pSent = 0
    /\ pLast = NoWrite
    /\ logDir \in {"absent", "dir"}
    /\ workDir \in {"absent", "dir"}
    /\ StartIdle
    /\ CodecIdle
    /\ CommandIdle
    /\ RegistryIdle

\* what the producers send while invocations come and go
StartEnvelopes == {EnvOff}

StartNext ==
    \/ \E p \in Invocations : Launch(p)
    \/ \E p \in Invocations : CheckPrivilege(p)
    \/ \E p \in Invocations : KillBranch(p)
    \/ \E p \in Invocations : StartBranch(p)
    \/ \E p \in Invocations : ContextEnter(p)
    \/ DaemonKilled
    \/ \E e \in StartEnvelopes : write_command(e)
    \/ WriterOpened
    \/ WriterFlush
    \/ WriterClose
    \/ DaemonMain
    \/ DaemonOpen
    \/ DaemonRawRead
    \/ DaemonReadEof
    \/ DaemonReadDone
    \/ DaemonDispatch
    \/ DaemonExecute
    \/ DaemonSignal

SpecStart == StartInit /\ [][StartNext]_vars

\* a SIGTERM sent to a process is delivered to it
SpecStartFair == SpecStart /\ WF_vars(DaemonKilled)

\* ------------------------------------------------------------------------
\* Codec exercise: create_msg on a content, the frame delivered whole or
\* cut short by the writer closing, get_message on what was delivered
\* ------------------------------------------------------------------------

SampleBytes == {0, 1, 255}

Bodies == UNION {[1..n -> SampleBytes] : n \in 0..MaxLen}

\* lengths of the filler: around the byte, 16-bit and 32-bit boundaries
Extras ==
    {<<0, 0>>, <<0, 1>>, <<0, 252>>, <<0, 255>>, <<0, 256>>, <<0, Wide - 1>>,
     <<1, 0>>, <<256, 0>>, <<Wide - 1, Wide - 4>>, <<Wide - 1, Wide - 1>>,
     <<Wide, 0>>, <<Wide, 1>>, <<Wide + 1, 5>>, <<2 * Wide, 0>>}

CodecInputs == {[body |-> b, extra |-> e] : b \in Bodies, e \in Extras}

CodecInit ==
    /\ cPc = "input"
    /\ cIn \in CodecInputs
    /\ cFrame = Null
    /\ cCut = Null
    /\ cOut = Null
    /\ RelayIdle
    /\ CommandIdle
    /\ RegistryIdle

\* the producer frames the content
CodecFrame ==
    /\ cPc = "input"
    /\ cFrame' = create_msg(cIn)
    /\ cPc' = "framed"
    /\ UNCHANGED <<cIn, cCut, cOut, relayVars, commandVars, registryVars>>

\* the whole frame reaches the reader, which reads one message
CodecReadWhole ==
    /\ cPc = "framed"
    /\ IsOk(cFrame)
    /\ cCut' = PyLen(cFrame.val)
    /\ cOut' = get_message(cFrame.val)
    /\ cPc' = "read"
    /\ UNCHANGED <<cIn, cFrame, relayVars, commandVars, registryVars>>

\* the writer closes after k bytes of the frame; the reader reads one message
CodecReadCut ==
    /\ cPc = "framed"
    /\ IsOk(cFrame)
    /\ \E k \in 0..(Len(cFrame.val.body) - 1) :
          /\ cCut' = BigOfNat(k)
          /\ cOut' = get_message(Bytes(SubSeq(cFrame.val.body, 1, k)))
    /\ cPc' = "read"
    /\ UNCHANGED <<cIn, cFrame, relayVars, commandVars, registryVars>>

CodecNext == CodecFrame \/ CodecReadWhole \/ CodecReadCut

SpecCodec == CodecInit /\ [][CodecNext]_vars

\* ------------------------------------------------------------------------
\* Command exercise: build_command on a command dict, then execute() of the
\* command it returned, one driver call at a time
\* ------------------------------------------------------------------------

\* fields of a decimal color: "0", "255", "12", "007", " 7", "+3"
DecimalFields ==
    {<<48>>, <<50, 53, 53>>, <<49, 50>>, <<48, 48, 55>>, <<32, 55>>, <<43, 51>>}

\* R-G-B for every three of the fields
DecimalColors ==
    {r \o <<45>> \o g \o <<45>> \o b : r, g, b \in DecimalFields}

\* color strings of neither format: "0xE09D3", "0xGG0000", "0x", "1-2",
\* "1-2-3-4", "red", "", "a-b-c", "1--2", "-1-2-3", "12", "1-2-"
OtherColors ==
    {<<48, 120, 69, 48, 57, 68, 51>>, <<48, 120, 71, 71, 48, 48, 48, 48>>,
     <<48, 120>>, <<49, 45, 50>>, <<49, 45, 50, 45, 51, 45, 52>>,
     <<114, 101, 100>>, <<>>, <<97, 45, 98, 45, 99>>, <<49, 45, 45, 50>>,
     <<45, 49, 45, 50, 45, 51>>, <<49, 50>>, <<49, 45, 50, 45>>}

\* set commands as /np/set builds them, one for each color
ColorEnvelopes ==
    {Envelope(Str_set, JList(<<>>),
              Kw(<< <<Str_brightness, Str_0_6>>, <<Str_color, c>> >>)) :
        c \in DecimalColors \cup OtherColors}

CommandInputs ==
    Envelopes \cup
    {EnvOffArgs, EnvOffKwargs, EnvSetBlue, EnvSetArgs, EnvSetNoColor,
     EnvSetNoKwargs, EnvSetNoColorBadBrightness, EnvSetHexFF, EnvSetHex00, EnvSetHexDigits, EnvNoName,
     EnvOffCapital, EnvBogusKwargs, EnvEchoNested}
    \cup ColorEnvelopes

\* a strip left lit and dimmed by an earlier set
DimRed == Strip(<<255, 0, 0>>, [num |-> 6, den |-> 10])

CommandInit ==
    /\ xPc = "input"
    /\ xEnv \in CommandInputs
    /\ xCmd = Null
    /\ xPlan = <<>>
    /\ xHw0 \in {AllOff, AllLit, DimRed}
    /\ xDrv = Driver(xHw0)
    /\ xOps = <<>>
    /\ xOut = Null
    /\ RelayIdle
    /\ CodecIdle
    /\ RegistryIdle

\* Command.build_command(command)
CommandBuild ==
    /\ xPc = "input"
    /\ IF IsOk(build_command(xEnv))
       THEN /\ xCmd' = build_command(xEnv).val
            /\ xPc' = "built"
            /\ UNCHANGED xOut
       ELSE /\ xOut' = build_command(xEnv)
            /\ xPc' = "build_failed"
            /\ UNCHANGED xCmd
    /\ UNCHANGED <<xEnv, xPlan, xDrv, xOps, xHw0, relayVars, codecVars, registryVars>>

\* execute() entered: the arguments are read before the first driver call
CommandEnter ==
    /\ xPc = "built"
    /\ IF IsOk(calls(xCmd))
       THEN /\ xPlan' = calls(xCmd).val
            /\ xPc' = "running"
            /\ UNCHANGED xOut
       ELSE /\ xOut' = calls(xCmd)
            /\ xPc' = "execute_failed"
            /\ UNCHANGED xPlan
    /\ UNCHANGED <<xEnv, xCmd, xDrv, xOps, xHw0, relayVars, codecVars, registryVars>>

\* execute() makes its next driver call
CommandCall ==
    /\ xPc = "running"
    /\ xPlan # <<>>
    /\ \E driverOk \in BOOLEAN :
          /\ xDrv' = ApplyCall(Head(xPlan), xDrv, driverOk)
          /\ IF IsOk(xDrv'.out)
             THEN UNCHANGED <<xPc, xOut>>
             ELSE xPc' = "execute_failed" /\ xOut' = xDrv'.out
    /\ xOps' = Append(xOps, Head(xPlan))
    /\ xPlan' = Tail(xPlan)
    /\ UNCHANGED <<xEnv, xCmd, xHw0, relayVars, codecVars, registryVars>>

\* execute() returns
CommandReturn ==
    /\ xPc = "running"
    /\ xPlan = <<>>
    /\ xPc' = "returned"
    /\ UNCHANGED <<xEnv, xCmd, xPlan, xDrv, xOps, xOut, xHw0, relayVars, codecVars, registryVars>>

CommandNext == CommandBuild \/ CommandEnter \/ CommandCall \/ CommandReturn

SpecCommand == CommandInit /\ [][CommandNext]_vars

\* ------------------------------------------------------------------------
\* Registry exercise: the modules that define Command subclasses are
\* imported, the daemon enters its loop, build_command looks a name up
\* ------------------------------------------------------------------------

\* a subclass of Command: the class and what its command_name() returns
Variant(cls, name) == [cls |-> cls, name |-> name]

\* the subclasses commands/command.py defines by its two imports and its
\* class statement, in that order
Shipped == [i \in 1..Len(Subclasses) |->
               Variant(Subclasses[i], command_name(Subclasses[i]))]

\* what a further subclass of Command may return as its command_name()
FurtherNames == {Str_off, Str_set, Str_echo, Str_bogus}

\* the command dicts looked up
RegistryEnvelopes == WellFormedEnvelopes \cup {EnvBogus}

\* Command.build_command on the subclasses defined so far
build_command_among(subclasses, command) ==
    LET name    == GetItem(command, COMMAND_NAME).val
        matches == {i \in 1..Len(subclasses) : JStr(subclasses[i].name) = name}
    IN  IF ~IsOk(FormatCommand(command)) THEN FormatCommand(command)
        ELSE IF matches = {} THEN Raise("ValueError")
        ELSE Ok(NewCommand(
                  subclasses[CHOOSE i \in matches : \A j \in matches : i <= j].cls,
                  GetItem(command, COMMAND_POSITIONAL_ARGUMENTS).val,
                  GetItem(command, COMMAND_KEYWORD_ARGUMENTS).val))

RegistryInit ==
    /\ gPc = "importing"
    /\ gSubclasses = <<>>
    /\ gEnv = Null
    /\ gOut = Null
    /\ RelayIdle
    /\ CodecIdle
    /\ CommandIdle

\* a class statement with base Command runs: type.__new__ adds the class to
\* Command.__subclasses__(); first the shipped ones, then those of any
\* further module
RegistryDefine ==
    /\ gPc = "importing"
    /\ Len(gSubclasses) < MaxVariants
    /\ IF Len(gSubclasses) < Len(Shipped)
       THEN gSubclasses' = Append(gSubclasses, Shipped[Len(gSubclasses) + 1])
       ELSE \E n \in FurtherNames :
               gSubclasses' = Append(gSubclasses, Variant("Further", n))
    /\ UNCHANGED <<gPc, gEnv, gOut, relayVars, codecVars, commandVars>>

\* the imports are over and main() enters its loop
RegistryLoop ==
    /\ gPc = "importing"
    /\ Len(gSubclasses) >= Len(Shipped)
    /\ gPc' = "loop"
    /\ UNCHANGED <<gSubclasses, gEnv, gOut, relayVars, codecVars, commandVars>>

\* Command.build_command(command) in the loop
RegistryBuild ==
    /\ gPc = "loop"
    /\ \E e \in RegistryEnvelopes :
          /\ gEnv' = e
          /\ gOut' = build_command_among(gSubclasses, e)
    /\ gPc' = "built"
    /\ UNCHANGED <<gSubclasses, relayVars, codecVars, commandVars>>

RegistryNext == RegistryDefine \/ RegistryLoop \/ RegistryBuild

SpecRegistry == RegistryInit /\ [][RegistryNext]_vars

\* ------------------------------------------------------------------------
\* Claims about the relay (checked under Spec)
\* ------------------------------------------------------------------------

Alive == dPc \in {"main", "wait", "read", "got", "built"} /\ exitStatus = -1

\* the command a received payload stands for
CommandOf(payload) ==
    build_command(json_loads(utf8_decode(payload).val).val).val

\* C1: when building or executing one command raises an argument error, a
\* dispatch error or an actuator error, the daemon stays in RUNNING (and so
\* goes on to read and execute the next well-formed command).
C1_CommandFailureIsolated ==
    (dFault # Null /\ dFault.stage \in {"build_command", "execute"}) => Alive

\* C2: a framing or envelope error on one inbound message (short length
\* prefix, payload not UTF-8, payload not JSON, required field missing)
\* discards only that message: the daemon stays in RUNNING.
C2_MessageFailureIsolated ==
    (dFault # Null /\ dFault.stage \in {"get_message", "decode", "json_loads", "main"})
        => Alive

\* C3: commands are executed strictly in receive order: when the daemon
\* starts the read of the next frame every frame received so far has had its
\* execute() return, at most one command is between receipt and the end of
\* its execute(), and the i-th command executed is the command of the i-th
\* frame received.
C3_ExecutedInReceiveOrder ==
    /\ dPc \in {"wait", "read"} => Len(executed) = Len(received)
    /\ Len(executed) <= Len(received)
    /\ Len(received) <= Len(executed) + 1
    /\ \A i \in 1..Len(executed) : executed[i] = CommandOf(received[i].payload)

C3_Witness ==
    /\ Len(executed) = 2
    /\ executed[1] # executed[2]
    /\ dPc = "wait"

\* C4: every payload get_message returns has exactly the number of bytes
\* its 4-byte length prefix declared.
C4_NoPartialFrame ==
    \A i \in 1..Len(received) :
        received[i].declared = BigOfNat(Len(received[i].payload))

\* C5: write_command on a path where nothing exists fails with the
\* not-found error and creates nothing at that path.
C5_WriteToMissingPipeFails ==
    pLast.path = "absent" =>
        pLast.out = "FileNotFoundError" /\ pLast.after = "absent"

\* C9: SIGTERM or SIGHUP delivered to the running daemon is only logged: the
\* daemon stays in RUNNING.
C9_TermHupOnlyLogged ==
    lastSig \in {"SIGTERM", "SIGHUP"} => Alive

\* C10: SIGINT delivered to the running daemon makes the process exit with
\* status 0, and no command is executed afterwards.
C10_SigintExitsZero ==
    lastSig = "SIGINT" => dPc = "exited" /\ exitStatus = 0

\* C27: read_command never returns a command that lacks one of the three
\* fields or has the wrong shape (it fails with a malformed-envelope error
\* instead), so the loop never indexes a missing field.
C27_ReadCommandValidates ==
    dCommand # Null =>
        /\ IsOk(GetItem(dCommand, COMMAND_NAME))
        /\ IsOk(GetItem(dCommand, COMMAND_POSITIONAL_ARGUMENTS))
        /\ GetItem(dCommand, COMMAND_POSITIONAL_ARGUMENTS).val.t = "list"
        /\ IsOk(GetItem(dCommand, COMMAND_KEYWORD_ARGUMENTS))
        /\ GetItem(dCommand, COMMAND_KEYWORD_ARGUMENTS).val.t = "dict"

\* C22: when the daemon exits (in particular on SIGINT) the pixels are
\* powered off: once the process has exited, every element of the strip is
\* off.
C22_PixelsOffAtExit ==
    exitStatus # -1 => \A i \in 1..MAX_NUM_PIXELS : hw.pixels[i] = <<0, 0, 0>>

\* ------------------------------------------------------------------------
\* Claims about start-up (checked under SpecStart)
\* ------------------------------------------------------------------------

\* invocation p takes a step
Moves(p) == iPc'[p] # iPc[p]

\* main() of the daemon is past its pipe setup, inside the loop
InLoop == dPc \in {"wait", "read", "got", "built"}

\* C11: an invocation without root privilege fails before any side effect:
\* none of its steps creates a directory, a log file, the PID file or a
\* named pipe, or sends a signal.
C11_UnprivilegedLeavesNoTrace ==
    [][\A p \in Invocations :
          (Moves(p) /\ ~has_admin_privileges(iUid'[p])) =>
              UNCHANGED <<logDir, logFiles, workDir, pidFile, fsIn, fsOut,
                          sigPending>>]_vars

\* C12: the loop is entered only after privilege was checked, the working
\* directory is present, the PID file is written and both named pipes are
\* present; an invocation that fails at the privilege check or at the
\* working directory never enters main(), and a daemon whose pipe creation
\* fails ends with a non-zero status having read and executed nothing.
C12_LoopOnlyAfterStartup ==
    /\ InLoop =>
          /\ has_admin_privileges(iUid[dOwner])
          /\ workDir = "dir"
          /\ pidFile = dOwner
          /\ fsIn = "fifo"
          /\ fsOut = "fifo"
    /\ \A p \in Invocations :
          iPc[p] = "failed" => p \notin running /\ p # dOwner
    /\ (dFault # Null /\ dFault.stage = "mkfifo") =>
          /\ exitStatus = 1
          /\ dCommand = Null
          /\ dCmd = Null

\* C13: once the pipe setup of main() is done, the inbound and the outbound
\* path are named pipes.
C13_PathsAreNamedPipes ==
    InLoop => fsIn = "fifo" /\ fsOut = "fifo"

\* the rest of C13: the pipe setup leaves a pipe that exists as it is, bytes
\* included, and no step removes a pipe, the end of the daemon included
PipesKept ==
    [][/\ fsIn = "fifo" => fsIn' = "fifo"
       /\ fsOut = "fifo" => fsOut' = "fifo"
       /\ (dPc = "main" /\ dPc' = "wait" /\ fsIn = "fifo") => pipeBuf' = pipeBuf]_vars

\* C14: an invocation with --start that finds the PID file of a live daemon
\* ends with an error (AlreadyLocked) and does not enter main(); whatever
\* the interleaving of the invocations, at most one process is inside
\* main().
C14_SingleDaemon ==
    /\ [](Cardinality(running) <= 1)
    /\ [][\A p \in Invocations :
             (iPc[p] = "configured" /\ Moves(p) /\ pidFile \in running) =>
                 /\ iPc'[p] = "failed"
                 /\ iExc'[p] = "AlreadyLocked"
                 /\ running' = running
                 /\ dOwner' = dOwner]_vars

C14_Witness ==
    /\ iPc[2] = "failed"
    /\ iExc[2] = "AlreadyLocked"
    /\ running = {1}
    /\ InLoop

WithinLimit == BigLeq(PyLen(cIn), MAX_MESSAGE_SIZE)

DeliveredWhole == cPc = "read" /\ IsOk(cFrame) /\ cCut = PyLen(cFrame.val)

FramePrefix == SubSeq(cFrame.val.body, 1, 4)

FrameRest ==
    [body |-> SubSeq(cFrame.val.body, 5, Len(cFrame.val.body)),
     extra |-> cFrame.val.extra]

\* C6: for every payload p no longer than the 4-byte length field allows,
\* create_msg(p) succeeds and get_message on the whole frame returns exactly p.
C6_FrameRoundTrip ==
    /\ (cPc # "input" /\ WithinLimit) => IsOk(cFrame)
    /\ (DeliveredWhole /\ WithinLimit) => cOut = Ok(cIn)

C6_Witness ==
    /\ DeliveredWhole
    /\ PyLen(cIn) = MAX_MESSAGE_SIZE
    /\ Len(cIn.body) = 3
    /\ cOut = Ok(cIn)

\* C7: for every payload within the size limit, create_msg returns the 4-byte
\* unsigned little-endian encoding of len(payload) followed by the payload
\* unchanged: the frame is 4 bytes longer than the payload, its first four
\* bytes b1..b4 satisfy b1 + 256*b2 + 65536*(b3 + 256*b4) = len(payload) and
\* decode_msg_size of them gives len(payload).
C7_EncodeLayout ==
    (cPc # "input" /\ WithinLimit) =>
        /\ IsOk(cFrame)
        /\ PyLen(cFrame.val) = BigAddNat(PyLen(cIn), 4)
        /\ \A i \in 1..4 : FramePrefix[i] \in 0..255
        /\ FramePrefix[1] + 256 * FramePrefix[2] = PyLen(cIn)[2]
        /\ FramePrefix[3] + 256 * FramePrefix[4] = PyLen(cIn)[1]
        /\ decode_msg_size(FramePrefix) = Ok(PyLen(cIn))
        /\ FrameRest = cIn

C7_Witness ==
    /\ cPc = "framed"
    /\ IsOk(cFrame)
    /\ PyLen(cIn) = <<256, 3>>
    /\ FramePrefix = <<3, 0, 0, 1>>

\* C8: create_msg fails with the oversize error (ValueError) for every
\* payload longer than MAX_MESSAGE_SIZE, and every frame it does emit carries
\* a length prefix equal to the true payload length (never the length modulo
\* 2^32).
C8_OversizeRejected ==
    cPc # "input" =>
        /\ BigGt(PyLen(cIn), MAX_MESSAGE_SIZE) => cFrame = Raise("ValueError")
        /\ IsOk(cFrame) =>
              /\ FramePrefix[1] + 256 * FramePrefix[2] = PyLen(cIn)[2]
              /\ FramePrefix[3] + 256 * FramePrefix[4] = PyLen(cIn)[1]

C8_Witness ==
    /\ cPc = "framed"
    /\ PyLen(cIn) = <<Wide, 0>>
    /\ cFrame = Raise("ValueError")

\* ------------------------------------------------------------------------
\* Claims about the commands (checked under SpecCommand)
\* ------------------------------------------------------------------------

NameOf(env) == GetItem(env, COMMAND_NAME).val.v

KwargsOf(env) == GetItem(env, COMMAND_KEYWORD_ARGUMENTS).val

HasKw(env, key) == IsOk(GetItem(KwargsOf(env), key))

KwOf(env, key) == GetItem(KwargsOf(env), key).val.v

Registered == {Str_echo, Str_off, Str_set}

\* build_command has returned or raised
Built == xPc \notin {"off", "input"}

\* no call has been made on the driver
Untouched == xOps = <<>> /\ xDrv = Driver(xHw0)

\* C16: build_command on a command whose name is none of echo, off and set
\* fails with the unknown-command error (ValueError), and no call is made
\* on the driver.
C16_UnknownCommandRejected ==
    (Built /\ NameOf(xEnv) \notin Registered) =>
        /\ xPc = "build_failed"
        /\ xOut = Raise("ValueError")
        /\ Untouched

C16_Witness ==
    xPc = "build_failed" /\ xEnv = EnvBogusKwargs /\ xHw0 = AllLit

\* a set command without brightness or without color
LacksArgument(env) ==
    /\ NameOf(env) = Str_set
    /\ ~HasKw(env, Str_brightness) \/ ~HasKw(env, Str_color)

HexDigit(c) ==
    IF c \in 48..57 THEN c - 48
    ELSE IF c \in 65..70 THEN c - 55
    ELSE IF c \in 97..102 THEN c - 87
    ELSE -1

\* "0x" followed by six hexadecimal digits
IsHexColor(s) ==
    /\ Len(s) = 8
    /\ Slice(s, 0, 2) = Str_0x
    /\ \A i \in 3..8 : HexDigit(s[i]) >= 0

HexTriple(s) ==
    <<16 * HexDigit(s[3]) + HexDigit(s[4]),
      16 * HexDigit(s[5]) + HexDigit(s[6]),
      16 * HexDigit(s[7]) + HexDigit(s[8])>>

\* C18: a set command whose color is "0x" and six hexadecimal digits (and
\* whose brightness is a number) programs every element of the strip to the
\* triple of the three bytes, unless the driver refuses.
C18_HexColorProgrammed ==
    ( /\ xPc \in {"returned", "execute_failed"}
      /\ NameOf(xEnv) = Str_set
      /\ ~LacksArgument(xEnv)
      /\ IsOk(PyFloat(KwOf(xEnv, Str_brightness)))
      /\ IsHexColor(KwOf(xEnv, Str_color))
      /\ xOut # Raise("ActuatorError") ) =>
        /\ xPc = "returned"
        /\ \A i \in 1..MAX_NUM_PIXELS :
              xDrv.hw.pixels[i] = HexTriple(KwOf(xEnv, Str_color))

\* C19: execute() of a set command acquires the strip with auto_write off,
\* fills the buffer, and shows it exactly once, after the fill; until that
\* show the strip is as it was before the command.
C19_SetFlushesOnce ==
    (xPc \in {"running", "returned", "execute_failed"}
        /\ xCmd.cls = "SetLightCommand") =>
        /\ xDrv.flushes <= 1
        /\ xDrv.flushes = 0 => xDrv.hw = xHw0
        /\ xDrv.px # Null => ~xDrv.px.auto_write
        /\ xPc = "returned" =>
              /\ Len(xOps) = 3
              /\ xOps[1].op = "NeoPixel" /\ ~xOps[1].auto_write
              /\ xOps[2].op = "fill"
              /\ xOps[3].op = "show"
              /\ xDrv.flushes = 1
              /\ \A i \in 1..MAX_NUM_PIXELS :
                    xDrv.hw.pixels[i] = xOps[2].color

C19_Witness ==
    /\ xPc = "returned"
    /\ xEnv = EnvSetDec
    /\ xHw0 = AllLit
    /\ xDrv.flushes = 1
    /\ xDrv.hw.pixels[MAX_NUM_PIXELS] = <<255, 0, 0>>

\* C20: build_command on a command named off returns an OffCommand, and
\* once its execute() has returned every one of the MAX_NUM_PIXELS elements
\* of the strip is (0, 0, 0), whatever the strip showed before and whatever
\* args and kwargs the command carried.
C20_OffBlanksStrip ==
    (Built /\ NameOf(xEnv) = Str_off) =>
        /\ xPc # "build_failed"
        /\ xCmd.cls = "OffCommand"
        /\ xPc = "returned" =>
              /\ DOMAIN xDrv.hw.pixels = 1..MAX_NUM_PIXELS
              /\ \A i \in 1..MAX_NUM_PIXELS : xDrv.hw.pixels[i] = <<0, 0, 0>>

C20_Witness ==
    /\ xPc = "returned"
    /\ xEnv = EnvOffArgs
    /\ xHw0 = DimRed
    /\ xDrv.hw.pixels[1] = <<0, 0, 0>>

ArgsOf(env) == GetItem(env, COMMAND_POSITIONAL_ARGUMENTS).val

\* the positional arguments are a list of strings and the keyword arguments
\* a mapping
WellShaped(env) ==
    /\ ArgsOf(env).t = "list"
    /\ \A i \in 1..Len(ArgsOf(env).v) : ArgsOf(env).v[i].t = "str"
    /\ KwargsOf(env).t = "dict"

\* C23: for an envelope whose name is registered, build_command constructs
\* the matching variant holding exactly the envelope's positional and
\* keyword arguments and returns it without executing it: no call is made
\* on the driver during build_command, and the driver is called only inside
\* execute() of an off or set command.
C23_BuildOnlyConstructs ==
    /\ (Built /\ NameOf(xEnv) \in Registered /\ WellShaped(xEnv)) =>
           /\ xPc # "build_failed"
           /\ command_name(xCmd.cls) = NameOf(xEnv)
           /\ xCmd.args = ArgsOf(xEnv)
           /\ xCmd.kwargs = KwargsOf(xEnv)
    /\ xPc \in {"input", "built", "build_failed"} => Untouched
    /\ ~Untouched =>
           /\ xPc \in {"running", "returned", "execute_failed"}
           /\ xCmd.cls \in {"OffCommand", "SetLightCommand"}

C23_Witness ==
    /\ xPc = "built"
    /\ xEnv = EnvSetArgs
    /\ xCmd.args.v # <<>>
    /\ xHw0 = AllLit

\* a decimal integer as a field of a color: digits, possibly after a "+"
\* and between blanks
IsDecimalNumeral(s) ==
    \E a, b \in 0..Len(s) :
        /\ a + b < Len(s)
        /\ \A i \in 1..a : s[i] = 32
        /\ \A i \in (Len(s) - b + 1)..Len(s) : s[i] = 32
        /\ LET core == SubSeq(s, a + 1, Len(s) - b)
               d    == IF core[1] = 43 THEN Tail(core) ELSE core
           IN  d # <<>> /\ \A i \in 1..Len(d) : IsDigit(d[i])

NumeralValue(s) == DigitsValue(SelectSeq(s, IsDigit))

\* the fields between the dashes
FieldsOf(s) == PySplit(s, 45)

\* three decimal integers separated by dashes
IsDecimalTriple(s) ==
    /\ Len(FieldsOf(s)) = 3
    /\ \A i \in 1..3 : IsDecimalNumeral(FieldsOf(s)[i])

DecimalTriple(s) ==
    <<NumeralValue(FieldsOf(s)[1]), NumeralValue(FieldsOf(s)[2]),
      NumeralValue(FieldsOf(s)[3])>>

\* a set command under execution with a color among its keyword arguments
SetWithColor ==
    /\ xPc \in {"running", "returned", "execute_failed"}
    /\ xCmd.cls = "SetLightCommand"
    /\ WellShaped(xEnv)
    /\ HasKw(xEnv, Str_color)

\* C24: for every color string that is a dash-separated triple R-G-B of
\* decimal integers, the set command parses it to the triple (R, G, B) with
\* the components in that order: that triple is what it fills the strip
\* with.
C24_DecimalColorParsed ==
    (SetWithColor /\ IsDecimalTriple(KwOf(xEnv, Str_color))) =>
        /\ get_color(KwOf(xEnv, Str_color)) =
               Ok(DecimalTriple(KwOf(xEnv, Str_color)))
        /\ \A i \in 1..Len(xOps) :
               xOps[i].op = "fill" =>
                   xOps[i].color = DecimalTriple(KwOf(xEnv, Str_color))
        /\ xPc = "returned" =>
               \A i \in 1..MAX_NUM_PIXELS :
                   xDrv.hw.pixels[i] = DecimalTriple(KwOf(xEnv, Str_color))

\* "12-255-007" has run: 12, 255, 7
C24_Witness ==
    /\ xPc = "returned"
    /\ HasKw(xEnv, Str_color)
    /\ KwOf(xEnv, Str_color) = <<49, 50, 45, 50, 53, 53, 45, 48, 48, 55>>
    /\ xDrv.hw.pixels[1] = <<12, 255, 7>>
    /\ xHw0 = AllLit

ConformingEnvelope(env) ==
    /\ NameOf(env) # <<>>
    /\ WellShaped(env)
    /\ \A i \in 1..Len(KwargsOf(env).v) : KwargsOf(env).v[i][2].t = "str"

\* C28: every envelope that a producer writes to the inbound pipe (through
\* write_command directly or through the /np/set, /np/off and
\* /np/submit_command handlers) has a non-empty command name, a list of
\* strings as positional arguments and a mapping of strings as keyword
\* arguments.
C28_WrittenEnvelopesConform ==
    \A e \in TransportEnvelopes :
        (pPc # "idle" /\ pData = FrameOf(json_dumps(e))) => ConformingEnvelope(e)

\* the step is execute() of the built command returning or raising
ExecuteStep ==
    /\ dPc = "built"
    /\ dPc' \in {"wait", "dead"}
    /\ dPc' = "dead" => dFault'.stage = "execute"

\* C26: execute() of an echo command never fails and leaves the strip, the
\* pipes and the PID file unchanged, for every echo command the daemon
\* receives.
C26_EchoHarmless ==
    [][(ExecuteStep /\ dCmd.cls = "EchoCommand") =>
          /\ dPc' = "wait"
          /\ executed' = Append(executed, dCmd)
          /\ UNCHANGED <<hw, fsVars, pipeBuf, writers, pidFile>>]_vars

\* an echo command has run with the strip lit
C26_Witness ==
    /\ dPc = "wait"
    /\ executed # <<>>
    /\ executed[Len(executed)].cls = "EchoCommand"
    /\ hw = AllLit

\* the daemon is blocked in open() with no writer in sight and the producer
\* is between two calls: nothing is in flight
Quiescent ==
    /\ Alive
    /\ dPc = "wait"
    /\ pPc = "idle"
    /\ writers = 0
    /\ ~wSeen

\* C29: no completed message is lost or duplicated: after k write_command
\* calls that returned, made one after another against a running daemon,
\* the daemon has received and dispatched exactly those k frames, each once
\* and in order, whatever the interleaving of the producer's
\* open/write/close with the daemon's open/read/close.
C29_NoMessageLostOrDuplicated ==
    Quiescent =>
        /\ Len(received) = Len(written)
        /\ \A i \in 1..Len(received) : FrameOf(received[i].payload) = written[i]
        /\ Len(executed) = Len(written)

\* ------------------------------------------------------------------------
\* Claims about the registry (checked under SpecRegistry)
\* ------------------------------------------------------------------------

\* C21: registering two command variants with the same command_name() is
\* rejected at startup: the daemon never reaches the loop with two variants
\* answering to one name, so build_command never picks one of several
\* variants for a name.
C21_DuplicateNameRejected ==
    gPc \in {"loop", "built"} =>
        \A i, j \in 1..Len(gSubclasses) :
            gSubclasses[i].name = gSubclasses[j].name => i = j

====
